---- MODULE Spec2Model ----
(***************************************************************************)
(* Model of python-ethtool's etherinfo object (etherinfo_obj.c): the       *)
(* attribute getter, the read-only setter, the string rendering, the two   *)
(* address-list methods and the deallocator of ethtool.etherinfo.          *)
(*                                                                         *)
(* One step of the model is one complete call of one of these handlers.    *)
(* The netlink helpers the handlers call (get_etherinfo_link,              *)
(* get_etherinfo_address, close_netlink) live in etherinfo.c; they are     *)
(* modelled from the specification's DeviceQueryClient contract.  What the *)
(* kernel answers to a query is an input of the step.                      *)
(***************************************************************************)
EXTENDS Integers, Sequences, FiniteSets, TLC

\* Longest IPv4 address list the kernel reports.
MaxAddrs == 2

\* Longest IPv6 address list the kernel reports.
MaxAddrs6 == 2

(***************************************************************************)
(* Python values.  C's NULL PyObject* is PyNULL; returning it from a       *)
(* handler is the error return of the C API.                               *)
(***************************************************************************)
PyValue(t, s, n, l, lines) == [t |-> t, s |-> s, n |-> n, l |-> l, lines |-> lines]

PyNULL == PyValue("NULL", "", 0, <<>>, <<>>)

Py_None == PyValue("None", "", 0, <<>>, <<>>)

PyString_FromString(s) == PyValue("str", s, 0, <<>>, <<>>)

PyInt_FromLong(n) == PyValue("int", "", n, <<>>, <<>>)

PyList(l) == PyValue("list", "", 0, l, <<>>)

\* A multi-line string, kept as the sequence of its complete lines.
PyText(lines) == PyValue("str", "", 0, <<>>, lines)

PyMethod(name) == PyValue("method", name, 0, <<>>, <<>>)

PyList_Check(o) == o.t = "list"

PyList_Size(o) == Len(o.l)

\* PyString_Concat(&v, w): NULL stays NULL, a NULL w clears v.
PyString_Concat(v, w) ==
    IF v = PyNULL THEN PyNULL
    ELSE IF w = PyNULL \/ v.t # "str" THEN PyNULL
    ELSE PyString_FromString(v.s \o w.s)

\* PyString_ConcatAndDel(&ret, tmp) with tmp one finished line of text.
PyString_ConcatLine(r, tmp) ==
    IF r = PyNULL THEN PyNULL
    ELSE IF tmp = PyNULL \/ r.t # "str" THEN PyNULL
    ELSE PyText(Append(r.lines, tmp.s))

\* PyString_FromFormat("/%d", prefixlen)
FormatPrefix(n) == PyString_FromString("/" \o ToString(n))

(***************************************************************************)
(* Address records (PyNetlinkIPaddress) and what the kernel can report.    *)
(***************************************************************************)
NetlinkIPaddress(family, local, prefixlen, bcast, scope) ==
    [ob_type |-> "NetlinkIPaddress", family |-> family, local |-> local,
     prefixlen |-> prefixlen, ipv4_broadcast |-> bcast, scope |-> scope]

\* The NULL PyNetlinkIPaddress pointer.
NullAddr ==
    [ob_type |-> "NULL", family |-> "", local |-> PyNULL,
     prefixlen |-> 0, ipv4_broadcast |-> PyNULL, scope |-> PyNULL]

Ipv4Records ==
    { NetlinkIPaddress("IPv4", PyString_FromString("10.0.0.5"), 24,
                       PyString_FromString("10.0.0.255"), PyNULL),
      NetlinkIPaddress("IPv4", PyString_FromString("192.168.1.7"), 16,
                       PyNULL, PyNULL),
      NetlinkIPaddress("IPv4", PyNULL, 8, PyNULL, PyNULL) }

Ipv6Records ==
    { NetlinkIPaddress("IPv6", PyString_FromString("fe80::1"), 64,
                       PyNULL, PyString_FromString("global")),
      NetlinkIPaddress("IPv6", PyString_FromString("fe80::2"), 10,
                       PyNULL, PyString_FromString("link")) }

HwAddresses == { "aa:bb:cc:dd:ee:ff" }

DeviceNames == { "eth0", "eth1" }

SeqUpTo(S, n) == UNION { [1..k -> S] : k \in 0..n }

NLQRY_ADDR4 == "NLQRY_ADDR4"

NLQRY_ADDR6 == "NLQRY_ADDR6"

NLQRY_LINK == "NLQRY_LINK"

\* One answer of the transport: the round trip worked (ok) and carried
\* a hardware address (hw) or an address list (l), or it failed, either
\* before a session could be opened ("open") or during the exchange ("io").
Answer(ok, fail, hw, l) == [ok |-> ok, fail |-> fail, hw |-> hw, l |-> l]

Failures(s) ==
    { Answer(FALSE, f, PyNULL, <<>>) :
        f \in IF s.session = "open" THEN {"io"} ELSE {"open", "io"} }

LinkAnswers(s) ==
    IF s.queried THEN { Answer(TRUE, "", PyNULL, <<>>) }
    ELSE Failures(s) \cup
         { Answer(TRUE, "", h, <<>>) :
             h \in {PyNULL} \cup { PyString_FromString(a) : a \in HwAddresses } }

Addr4Answers(s) ==
    Failures(s) \cup
    { Answer(TRUE, "", PyNULL, l) : l \in SeqUpTo(Ipv4Records, MaxAddrs) }

Addr6Answers(s) ==
    Failures(s) \cup
    { Answer(TRUE, "", PyNULL, l) : l \in SeqUpTo(Ipv6Records, MaxAddrs6) }

\* A line of the query log: which query went out and what came back.
Query(q, a) == [q |-> q, ok |-> a.ok, hw |-> a.hw, l |-> a.l]

VARIABLES
    self,       \* the PyEtherInfo object: device, hwaddress, queried, session
    allocated,  \* the object has not been deallocated
    lastOp,     \* the handler that ran last, and the attribute it was given
    ret,        \* what that handler returned
    pyerr,      \* the exception it left set ("" for none)
    qlog,       \* the queries it sent to the transport, in order
    py_addr,    \* the record a legacy read selected (NullAddr otherwise)
    prev_addr,  \* py_addr of the legacy read just before, if there was one
    pre,        \* self as it was when that handler was entered
    link_failed, \* the mac_address read before this handler failed its query
    retried     \* this mac_address read queries again right after such a read

vars ==
    <<self, allocated, lastOp, ret, pyerr, qlog, py_addr, prev_addr, pre,
      link_failed, retried>>

Op(op, attr) == [op |-> op, attr |-> attr]

Init ==
    /\ self \in { [device |-> PyString_FromString(d), hwaddress |-> PyNULL,
                   queried |-> FALSE, session |-> "none"] : d \in DeviceNames }
    /\ allocated = TRUE
    /\ lastOp = Op("idle", "")
    /\ ret = PyNULL
    /\ pyerr = ""
    /\ qlog = <<>>
    /\ py_addr = NullAddr
    /\ prev_addr = NullAddr
    /\ pre = self
    /\ link_failed = FALSE
    /\ retried = FALSE

(***************************************************************************)
(* The netlink helpers of etherinfo.c, from the DeviceQueryClient contract *)
(* of the specification.  Each returns the object as it leaves it, the     *)
(* value it hands back, the exception it sets and the queries it sent.     *)
(***************************************************************************)
Outcome(s, r, err, log) == [self |-> s, ret |-> r, err |-> err, log |-> log]

\* The session is acquired on the first query that gets as far as opening it.
open_netlink(s, a) ==
    IF ~a.ok /\ a.fail = "open" THEN s ELSE [s EXCEPT !.session = "open"]

\* fetchLink: only while nothing is cached; the cache commits on success.
get_etherinfo_link(s, a) ==
    IF s.queried THEN Outcome(s, PyNULL, "", <<>>)
    ELSE IF a.ok
    THEN Outcome([open_netlink(s, a) EXCEPT !.hwaddress = a.hw, !.queried = TRUE],
                 PyNULL, "", <<Query(NLQRY_LINK, a)>>)
    ELSE Outcome(open_netlink(s, a), PyNULL, "TransportFailure",
                 <<Query(NLQRY_LINK, a)>>)

\* fetchAddresses: one fresh query per call, nothing cached.
get_etherinfo_address(s, query, a) ==
    IF a.ok
    THEN Outcome(open_netlink(s, a), PyList(a.l), "", <<Query(query, a)>>)
    ELSE Outcome(open_netlink(s, a), PyNULL, "TransportFailure",
                 <<Query(query, a)>>)

\* Releases the session if one is open.
close_netlink(s) ==
    IF s.session = "open" THEN [s EXCEPT !.session = "closed"] ELSE s

LinkFailed(log) == \E i \in 1..Len(log) : log[i].q = NLQRY_LINK /\ ~log[i].ok

LinkQueried(log) == \E i \in 1..Len(log) : log[i].q = NLQRY_LINK

\* What every handler records on return.
Returns(op, s, r, err, log, sel, prev) ==
    /\ lastOp' = op
    /\ self' = s
    /\ ret' = r
    /\ pyerr' = err
    /\ qlog' = log
    /\ py_addr' = sel
    /\ prev_addr' = prev
    /\ pre' = self
    /\ link_failed' = (op.attr = "mac_address" /\ LinkFailed(log))
    /\ retried' = (link_failed /\ op.attr = "mac_address" /\ LinkQueried(log))
    /\ allocated' = allocated

\* The interpreter is between two calls on the object, which is still live.
Callable == allocated /\ lastOp.op = "idle"

\* The caller has taken the handler's result; the next call can be made.
Resume ==
    /\ allocated
    /\ lastOp.op # "idle"
    /\ lastOp' = Op("idle", "")
    /\ ret' = PyNULL /\ pyerr' = "" /\ qlog' = <<>>
    /\ prev_addr' = NullAddr /\ retried' = FALSE
    /\ pre' = self
    /\ UNCHANGED <<self, allocated, py_addr, link_failed>>

(***************************************************************************)
(* etherinfo_obj.c                                                         *)
(***************************************************************************)
dealloc_keeps_session ==
    /\ Callable
    /\ lastOp' = Op("dealloc", "")
    /\ self' = [self EXCEPT !.device = PyNULL, !.hwaddress = PyNULL]
    /\ allocated' = FALSE
    /\ pre' = self
    /\ ret' = PyNULL /\ pyerr' = "" /\ qlog' = <<>>
    /\ py_addr' = NullAddr /\ prev_addr' = NullAddr
    /\ link_failed' = FALSE /\ retried' = FALSE

_ethtool_etherinfo_dealloc ==
    /\ Callable
    /\ lastOp' = Op("dealloc", "")
    /\ self' = [close_netlink(self) EXCEPT !.device = PyNULL, !.hwaddress = PyNULL]
    /\ allocated' = FALSE
    /\ pre' = self
    /\ ret' = PyNULL /\ pyerr' = "" /\ qlog' = <<>>
    /\ py_addr' = NullAddr /\ prev_addr' = NullAddr
    /\ link_failed' = FALSE /\ retried' = FALSE

get_first_ipv4_address(addrlist) ==
    IF addrlist = PyNULL THEN NullAddr
    ELSE IF ~PyList_Check(addrlist) THEN NullAddr
    ELSE IF PyList_Size(addrlist) > 0
            /\ addrlist.l[1].ob_type = "NetlinkIPaddress"
    THEN addrlist.l[1]
    ELSE NullAddr

get_last_ipv4_address(addrlist) ==
    IF addrlist = PyNULL THEN NullAddr
    ELSE IF ~PyList_Check(addrlist) THEN NullAddr
    ELSE IF PyList_Size(addrlist) > 0
            /\ addrlist.l[PyList_Size(addrlist)].ob_type = "NetlinkIPaddress"
    THEN addrlist.l[PyList_Size(addrlist)]
    ELSE NullAddr

get_device_after_link ==
    /\ Callable
    /\ \E a \in LinkAnswers(self) :
         LET r == get_etherinfo_link(self, a)
         IN  Returns(Op("getattr", "device"), r.self,
                     IF r.self.device # PyNULL THEN r.self.device ELSE Py_None,
                     r.err, r.log, NullAddr, NullAddr)

\* getter, attr "device"
get_device ==
    /\ Callable
    /\ Returns(Op("getattr", "device"), self,
               IF self.device # PyNULL THEN self.device ELSE Py_None,
               "", <<>>, NullAddr, NullAddr)

get_mac_address_invalidating ==
    /\ Callable
    /\ \E a \in LinkAnswers(self) :
         LET r == get_etherinfo_link(
                      [self EXCEPT !.hwaddress = PyNULL, !.queried = FALSE], a)
         IN  Returns(Op("getattr", "mac_address"), r.self, r.self.hwaddress,
                     r.err, r.log, NullAddr, NullAddr)

get_mac_address_or_none ==
    /\ Callable
    /\ \E a \in LinkAnswers(self) :
         LET r == get_etherinfo_link(self, a)
         IN  Returns(Op("getattr", "mac_address"), r.self,
                     IF r.self.hwaddress # PyNULL THEN r.self.hwaddress
                     ELSE Py_None,
                     r.err, r.log, NullAddr, NullAddr)

\* getter, attr "mac_address"
get_mac_address ==
    /\ Callable
    /\ \E a \in LinkAnswers(self) :
         LET r == get_etherinfo_link(self, a)
         IN  Returns(Op("getattr", "mac_address"), r.self, r.self.hwaddress,
                     r.err, r.log, NullAddr, NullAddr)

\* getter, attr "ipv4_address"
get_ipv4_address ==
    /\ Callable
    /\ \E a \in Addr4Answers(self) :
         LET r == get_etherinfo_address(self, NLQRY_ADDR4, a)
             addr == get_last_ipv4_address(r.ret)
         IN  Returns(Op("getattr", "ipv4_address"), r.self,
                     IF addr # NullAddr /\ addr.local # PyNULL
                     THEN addr.local ELSE Py_None,
                     r.err, r.log, addr, py_addr)

get_ipv4_netmask_cached ==
    /\ Callable
    /\ \E a \in Addr4Answers(self) :
         LET r == get_etherinfo_address(self, NLQRY_ADDR4, a)
             addr == IF py_addr # NullAddr THEN py_addr
                     ELSE get_last_ipv4_address(r.ret)
         IN  Returns(Op("getattr", "ipv4_netmask"), r.self,
                     IF addr # NullAddr
                     THEN PyInt_FromLong(addr.prefixlen) ELSE PyInt_FromLong(0),
                     r.err, r.log, addr, py_addr)

\* getter, attr "ipv4_netmask"
get_ipv4_netmask ==
    /\ Callable
    /\ \E a \in Addr4Answers(self) :
         LET r == get_etherinfo_address(self, NLQRY_ADDR4, a)
             addr == get_last_ipv4_address(r.ret)
         IN  Returns(Op("getattr", "ipv4_netmask"), r.self,
                     IF addr # NullAddr
                     THEN PyInt_FromLong(addr.prefixlen) ELSE PyInt_FromLong(0),
                     r.err, r.log, addr, py_addr)

\* getter, attr "ipv4_broadcast"
get_ipv4_broadcast ==
    /\ Callable
    /\ \E a \in Addr4Answers(self) :
         LET r == get_etherinfo_address(self, NLQRY_ADDR4, a)
             addr == get_last_ipv4_address(r.ret)
         IN  Returns(Op("getattr", "ipv4_broadcast"), r.self,
                     IF addr # NullAddr /\ addr.ipv4_broadcast # PyNULL
                     THEN addr.ipv4_broadcast ELSE Py_None,
                     r.err, r.log, addr, py_addr)

MethodNames == { "get_ipv4_addresses", "get_ipv6_addresses" }

OtherNames == MethodNames \cup { "no_such_attribute" }

\* getter, any other attr: PyObject_GenericGetAttr
get_other ==
    /\ Callable
    /\ \E attr \in OtherNames :
         Returns(Op("getattr", attr), self,
                 IF attr \in MethodNames THEN PyMethod(attr) ELSE PyNULL,
                 IF attr \in MethodNames THEN "" ELSE "AttributeError",
                 <<>>, NullAddr, NullAddr)

AttrNames ==
    { "device", "mac_address", "ipv4_address", "ipv4_netmask", "ipv4_broadcast",
      "no_such_attribute" }

SetValues == { Py_None, PyString_FromString("eth9") }

ReadOnly == "AttributeError: etherinfo member values are read-only."

setter_storing ==
    /\ Callable
    /\ \E attr \in AttrNames, val_o \in SetValues :
         Returns(Op("setattr", attr),
                 IF attr = "device" /\ val_o # Py_None
                 THEN [self EXCEPT !.device = val_o] ELSE self,
                 PyInt_FromLong(-1), ReadOnly, <<>>, NullAddr, NullAddr)

_ethtool_etherinfo_setter ==
    /\ Callable
    /\ \E attr \in AttrNames, val_o \in SetValues :
         Returns(Op("setattr", attr), self,
                 PyInt_FromLong(-1), ReadOnly, <<>>, NullAddr, NullAddr)

\* One "\tIPv4 address: ..." line, as the loop body builds it in tmp.
Ipv4Line(addr) ==
    LET t1 == PyString_Concat(PyString_FromString("\tIPv4 address: "), addr.local)
        t2 == PyString_Concat(t1, FormatPrefix(addr.prefixlen))
        t3 == IF addr.ipv4_broadcast # PyNULL
              THEN PyString_Concat(
                       PyString_Concat(t2, PyString_FromString("\t  Broadcast: ")),
                       addr.ipv4_broadcast)
              ELSE t2
    IN  PyString_Concat(t3, PyString_FromString("\n"))

\* One "\tIPv6 address: [scope] ..." line.
Ipv6Line(addr) ==
    LET t1 == PyString_Concat(PyString_FromString("\tIPv6 address: ["), addr.scope)
        t2 == PyString_Concat(t1, PyString_FromString("] "))
        t3 == PyString_Concat(t2, addr.local)
        t4 == PyString_Concat(t3, FormatPrefix(addr.prefixlen))
    IN  PyString_Concat(t4, PyString_FromString("\n"))

\* for (i = 0; i < PyList_Size(ipv4addrs); i++) ... ConcatAndDel(&ret, tmp)
RECURSIVE ConcatIpv4Lines(_, _, _)
ConcatIpv4Lines(r, addrs, i) ==
    IF i > Len(addrs) THEN r
    ELSE ConcatIpv4Lines(PyString_ConcatLine(r, Ipv4Line(addrs[i])), addrs, i + 1)

RECURSIVE ConcatIpv6Lines(_, _, _)
ConcatIpv6Lines(r, addrs, i) ==
    IF i > Len(addrs) THEN r
    ELSE ConcatIpv6Lines(PyString_ConcatLine(r, Ipv6Line(addrs[i])), addrs, i + 1)

\* The text _ethtool_etherinfo_str composes once its three queries are back.
Render(s, ipv4addrs, ipv6addrs) ==
    LET hdr == PyString_Concat(
                   PyString_Concat(PyString_FromString("Device "), s.device),
                   PyString_FromString(":\n"))
        r0 == PyString_ConcatLine(PyText(<<>>), hdr)
        mac == PyString_Concat(
                   PyString_Concat(PyString_FromString("\tMAC address: "),
                                   s.hwaddress),
                   PyString_FromString("\n"))
        r1 == IF s.hwaddress # PyNULL THEN PyString_ConcatLine(r0, mac) ELSE r0
        r2 == IF ipv4addrs # PyNULL THEN ConcatIpv4Lines(r1, ipv4addrs.l, 1) ELSE r1
    IN  IF ipv6addrs # PyNULL THEN ConcatIpv6Lines(r2, ipv6addrs.l, 1) ELSE r2

LastErr(errs) ==
    IF errs[3] # "" THEN errs[3] ELSE IF errs[2] # "" THEN errs[2] ELSE errs[1]

_ethtool_etherinfo_str ==
    /\ Callable
    /\ \E a \in LinkAnswers(self) :
         LET lk == get_etherinfo_link(self, a)
         IN  \E a4 \in Addr4Answers(lk.self) :
               LET r4 == get_etherinfo_address(lk.self, NLQRY_ADDR4, a4)
               IN  \E a6 \in Addr6Answers(r4.self) :
                     LET r6 == get_etherinfo_address(r4.self, NLQRY_ADDR6, a6)
                     IN  Returns(Op("str", ""), r6.self,
                                 Render(r6.self, r4.ret, r6.ret),
                                 LastErr(<<lk.err, r4.err, r6.err>>),
                                 lk.log \o r4.log \o r6.log,
                                 NullAddr, NullAddr)

get_ipv4_addresses_collapsed ==
    /\ Callable
    /\ \E a \in Addr4Answers(self) :
         LET r == get_etherinfo_address(self, NLQRY_ADDR4, a)
             addr == get_last_ipv4_address(r.ret)
         IN  Returns(Op("call", "get_ipv4_addresses"), r.self,
                     IF addr # NullAddr THEN PyList(<<addr>>) ELSE r.ret,
                     r.err, r.log, NullAddr, NullAddr)

_ethtool_etherinfo_get_ipv4_addresses ==
    /\ Callable
    /\ \E a \in Addr4Answers(self) :
         LET r == get_etherinfo_address(self, NLQRY_ADDR4, a)
         IN  Returns(Op("call", "get_ipv4_addresses"), r.self, r.ret,
                     r.err, r.log, NullAddr, NullAddr)

_ethtool_etherinfo_get_ipv6_addresses ==
    /\ Callable
    /\ \E a \in Addr6Answers(self) :
         LET r == get_etherinfo_address(self, NLQRY_ADDR6, a)
         IN  Returns(Op("call", "get_ipv6_addresses"), r.self, r.ret,
                     r.err, r.log, NullAddr, NullAddr)

Next ==
    \/ get_device
    \/ get_mac_address
    \/ get_ipv4_address
    \/ get_ipv4_netmask
    \/ get_ipv4_broadcast
    \/ get_other
    \/ _ethtool_etherinfo_setter
    \/ _ethtool_etherinfo_str
    \/ _ethtool_etherinfo_get_ipv4_addresses
    \/ _ethtool_etherinfo_get_ipv6_addresses
    \/ _ethtool_etherinfo_dealloc
    \/ Resume

Spec == Init /\ [][Next]_vars

(***************************************************************************)
(* Properties                                                              *)
(***************************************************************************)
LegacyNames == { "ipv4_address", "ipv4_netmask", "ipv4_broadcast" }

LegacyRead == lastOp.op = "getattr" /\ lastOp.attr \in LegacyNames

MacRead == lastOp = Op("getattr", "mac_address")

\* The value a legacy field has for the address list L, per the collapse rule.
Collapsed(attr, L) ==
    LET n == Len(L)
    IN  CASE attr = "ipv4_address" ->
               IF n = 0 \/ L[n].local = PyNULL THEN Py_None ELSE L[n].local
          [] attr = "ipv4_netmask" ->
               IF n = 0 THEN PyInt_FromLong(0) ELSE PyInt_FromLong(L[n].prefixlen)
          [] attr = "ipv4_broadcast" ->
               IF n = 0 \/ L[n].ipv4_broadcast = PyNULL
               THEN Py_None ELSE L[n].ipv4_broadcast

\* C1: a legacy read whose IPv4 query returned the list [A0..An] returns
\* An's local address, prefix length or broadcast address, and the defaults
\* none, 0, none when the list is empty or An lacks the field; it never
\* fails on an empty list.
C1_LastAddressCollapse ==
    (LegacyRead /\ Len(qlog) = 1 /\ qlog[1].q = NLQRY_ADDR4 /\ qlog[1].ok)
        => /\ ret = Collapsed(lastOp.attr, qlog[1].l)
           /\ ret # PyNULL
           /\ pyerr = ""

C1_Witness ==
    /\ lastOp = Op("getattr", "ipv4_address")
    /\ Len(qlog) = 1 /\ qlog[1].ok /\ Len(qlog[1].l) = 2
    /\ qlog[1].l[1].local # qlog[1].l[2].local
    /\ qlog[1].l[1].local # PyNULL
    /\ ret = qlog[1].l[2].local
    /\ ret.t = "str"

C4_AddressFailureIsError ==
    (LegacyRead /\ Len(qlog) = 1 /\ ~qlog[1].ok)
        => /\ ret = PyNULL
           /\ ret # Collapsed(lastOp.attr, <<>>)

\* C5: setting any attribute to any value fails with the read-only error,
\* changes nothing in the object and sends no query.
C5_SetterRejects ==
    lastOp.op = "setattr"
        => /\ ret = PyInt_FromLong(-1)
           /\ pyerr = ReadOnly
           /\ self = pre
           /\ qlog = <<>>

C5_Witness ==
    /\ lastOp = Op("setattr", "device")
    /\ pre.queried
    /\ pre.session = "open"
    /\ pyerr = ReadOnly

FamilyQuery(attr) ==
    IF attr = "get_ipv6_addresses" THEN NLQRY_ADDR6 ELSE NLQRY_ADDR4

\* C6: get_ipv4_addresses and get_ipv6_addresses each send one address query
\* for their own family and return the list it produced, record for record.
C6_AddressListsUnmodified ==
    lastOp.op = "call"
        => /\ Len(qlog) = 1
           /\ qlog[1].q = FamilyQuery(lastOp.attr)
           /\ qlog[1].ok => ret = PyList(qlog[1].l)

C6_Witness ==
    /\ lastOp = Op("call", "get_ipv4_addresses")
    /\ Len(qlog) = 1 /\ qlog[1].ok
    /\ Len(ret.l) = 2
    /\ ret.l[1] # ret.l[2]
    /\ ret.l = qlog[1].l

LiveRead == LegacyRead \/ lastOp.op = "call"

\* C7: each read of a legacy field or of an address list sends exactly one
\* address query of its own, and what it returns is fixed by the list that
\* query returned, whatever an earlier read fetched or selected.
C7_EveryReadIsFresh ==
    LiveRead
        => /\ Len(qlog) = 1
           /\ qlog[1].q = FamilyQuery(lastOp.attr)
           /\ (qlog[1].ok /\ LegacyRead)
                  => /\ ret = Collapsed(lastOp.attr, qlog[1].l)
                     /\ py_addr = get_last_ipv4_address(PyList(qlog[1].l))
           /\ (qlog[1].ok /\ ~LegacyRead) => ret.l = qlog[1].l

\* Two legacy reads in a row that saw different kernel states.
C7_Witness ==
    /\ lastOp = Op("getattr", "ipv4_netmask")
    /\ prev_addr # NullAddr
    /\ py_addr # NullAddr
    /\ prev_addr.prefixlen # py_addr.prefixlen
    /\ ret = PyInt_FromLong(py_addr.prefixlen)

\* C8: reading device sends no query, does not fail, changes nothing and
\* returns the device name, which no operation on a live object changes.
C8_DeviceReadIsPure ==
    /\ allocated
           => /\ self.device = pre.device
              /\ self.device \in { PyString_FromString(d) : d \in DeviceNames }
    /\ lastOp = Op("getattr", "device")
           => /\ qlog = <<>>
              /\ pyerr = ""
              /\ ret = pre.device
              /\ ret.t = "str"
              /\ self = pre

C8_Witness ==
    /\ lastOp = Op("getattr", "device")
    /\ pre.queried
    /\ pre.hwaddress # PyNULL
    /\ ret = self.device

\* The list the query q of the last handler returned (empty if it failed).
Fetched(q) ==
    IF \E i \in 1..Len(qlog) : qlog[i].q = q
    THEN qlog[CHOOSE i \in 1..Len(qlog) : qlog[i].q = q].l
    ELSE <<>>

Ipv4Text(a) ==
    "\tIPv4 address: " \o a.local.s \o "/" \o ToString(a.prefixlen)
        \o (IF a.ipv4_broadcast # PyNULL
            THEN "\t  Broadcast: " \o a.ipv4_broadcast.s ELSE "")
        \o "\n"

Ipv6Text(a) ==
    "\tIPv6 address: [" \o a.scope.s \o "] " \o a.local.s \o "/"
        \o ToString(a.prefixlen) \o "\n"

DisplayLines(s, l4, l6) ==
    <<"Device " \o s.device.s \o ":\n">>
        \o (IF s.hwaddress # PyNULL
            THEN <<"\tMAC address: " \o s.hwaddress.s \o "\n">> ELSE <<>>)
        \o [i \in 1..Len(l4) |-> Ipv4Text(l4[i])]
        \o [i \in 1..Len(l6) |-> Ipv6Text(l6[i])]

\* C9: the display string is made after the link query; it holds the device
\* line, the MAC line exactly when a hardware address is cached, one line
\* per IPv4 record in query order, then one line per IPv6 record in query
\* order, so as many address lines as records were returned.
C9_DisplayLines ==
    lastOp.op = "str"
        => /\ ~pre.queried => (Len(qlog) >= 1 /\ qlog[1].q = NLQRY_LINK)
           /\ ret.t = "str"
           /\ Len(ret.lines)
                  = 1 + (IF self.hwaddress # PyNULL THEN 1 ELSE 0)
                      + Len(Fetched(NLQRY_ADDR4)) + Len(Fetched(NLQRY_ADDR6))
           /\ ret.lines
                  = DisplayLines(self, Fetched(NLQRY_ADDR4), Fetched(NLQRY_ADDR6))

\* Every record the last handler's address queries returned has a local
\* address.
AllLocal ==
    /\ \A i \in 1..Len(Fetched(NLQRY_ADDR4)) : Fetched(NLQRY_ADDR4)[i].local # PyNULL
    /\ \A i \in 1..Len(Fetched(NLQRY_ADDR6)) : Fetched(NLQRY_ADDR6)[i].local # PyNULL

\* The display string is as C9 says whenever every record returned has a
\* local address.
DisplayLinesWhenAllLocal ==
    (lastOp.op = "str" /\ AllLocal)
        => /\ ~pre.queried => (Len(qlog) >= 1 /\ qlog[1].q = NLQRY_LINK)
           /\ Len(ret.lines)
                  = 1 + (IF self.hwaddress # PyNULL THEN 1 ELSE 0)
                      + Len(Fetched(NLQRY_ADDR4)) + Len(Fetched(NLQRY_ADDR6))
           /\ ret = PyText(DisplayLines(self, Fetched(NLQRY_ADDR4),
                                        Fetched(NLQRY_ADDR6)))

\* A display string with a MAC line, two IPv4 lines and two IPv6 lines.
DisplayLinesReached ==
    /\ lastOp.op = "str"
    /\ self.hwaddress # PyNULL
    /\ Len(Fetched(NLQRY_ADDR4)) = 2 /\ Len(Fetched(NLQRY_ADDR6)) = 2
    /\ Fetched(NLQRY_ADDR4)[1] # Fetched(NLQRY_ADDR4)[2]
    /\ Len(ret.lines) = 6

\* The display string is lost whenever an IPv4 record returned has no local
\* address.
DisplayLostWithoutLocal ==
    (/\ lastOp.op = "str"
     /\ \E i \in 1..Len(Fetched(NLQRY_ADDR4)) : Fetched(NLQRY_ADDR4)[i].local = PyNULL)
        => ret = PyNULL

\* C10: a deallocated object holds no open session, whatever went before.
C10_SessionReleased ==
    ~allocated => self.session # "open"

C10_Witness ==
    /\ ~allocated
    /\ pre.session = "open"
    /\ self.session = "closed"

====
